---------------------------- MODULE Spec2Model ----------------------------
(***************************************************************************)
(* A model of the causal-world-model research code:                        *)
(*   - the Dreamer training loop, examples/dreamers/train.py (main);        *)
(*   - ContextModel, causal_meta/modules/models/context_model.py;           *)
(*   - PlainMDPWorldModel's log-variance clamp, intact/.../plain_wm.py;     *)
(*   - mean_corr_coef, tdfa/utils/metrics.py.                               *)
(* Each component has its own specification over its own variables; the    *)
(* variables of the other components stay at their idle value.             *)
(***************************************************************************)
EXTENDS Integers, Sequences, FiniteSets, TLC

VARIABLES pc, tr, cm, call, wm, mcc

vars == <<pc, tr, cm, call, wm, mcc>>

\* the value of a component's variables under another component's specification
Idle == "idle"
\* what an action of one component leaves alone
TrainOnly == UNCHANGED <<cm, call, wm, mcc>>
ContextOnly == UNCHANGED <<pc, tr, wm, mcc>>
WMOnly == UNCHANGED <<pc, tr, cm, call, mcc>>
MCCOnly == UNCHANGED <<pc, tr, cm, call, wm>>

(***************************************************************************)
(* Bounds of the training-loop model.                                      *)
(***************************************************************************)
\* the collector yields at most this many batches (total_frames / frames_per_batch)
MaxBatches == 3
\* frames in one collected batch (cfg.frames_per_batch); the mask may invalidate some
FramesPerBatch == 2
\* cfg.optim_steps_per_batch ranges over 0..MaxOptimSteps
MaxOptimSteps == 2

(***************************************************************************)
(* train.py: the objects main() builds before the loop.                    *)
(***************************************************************************)
\* the parameter groups of the world model, the actor and the value model
Groups == {"module", "context", "mask_logits", "actor", "value"}

\* world_model.get_parameter(name): the parameters registered under that
\* name and no others (the world model class is not among the sources)
get_parameter(name) == {name}

\* the optimizer built over every parameter of the world model
world_model_opt_AllParameters == {"module", "context", "mask_logits"}

\* line 122: torch.optim.Adam(world_model.get_parameter("module"))
world_model_opt == get_parameter("module")
\* line 123
context_opt == get_parameter("context")
\* line 124
mask_logits_opt == get_parameter("mask_logits")
\* line 125: torch.optim.Adam(actor_model.parameters())
actor_opt == {"actor"}
\* line 126
value_opt == {"value"}

\* the names bound in main()'s scope or the module's globals when the inner
\* loop runs (lines 1-26 import them, lines 42-155 assign them); do_log is
\* read at lines 174, 189, 200 and 212 and bound nowhere
BoundNames == {"cfg", "device", "logger", "world_model", "world_model_loss",
               "actor_loss", "value_loss", "collector", "replay_buffer",
               "world_model_opt", "context_opt", "mask_logits_opt",
               "actor_opt", "value_opt", "collected_frames", "tensordict",
               "sampled_tensordict", "grad_norm", "match_length"}

\* line 158: the literal condition of `if True:`
UseBackpropPath == TRUE


(***************************************************************************)
(* train.py: the state of main().  tr is the record of main()'s locals:    *)
(*   cfg                 the configuration values the loop reads           *)
(*   yielded             batches the collector has yielded so far          *)
(*   tensordict          the batch of the current outer iteration (its     *)
(*                       number, 0 before the first)                       *)
(*   collected_frames    line 129                                          *)
(*   replay_buffer       the batches stored, oldest first                  *)
(*   j                   the inner loop's position: the index range()      *)
(*                       yields next for the current batch                 *)
(*   sampled_tensordict  the batch sampled at line 155 (0: none)           *)
(*   params, grads       per parameter group: the number of optimizer      *)
(*                       updates applied, the number of backward passes    *)
(*                       accumulated in .grad since it was last cleared    *)
(*   explored, synced    calls of exploration_policy.step and              *)
(*                       collector.update_policy_weights_                  *)
(*   events              history: what the current optimization step has   *)
(*                       executed, in order                                *)
(*   error               the exception that ended main(), "" if none       *)
(* pc is the line main() is about to execute.                              *)
(***************************************************************************)
Configs ==
    [init_frames : 0 .. (2 * FramesPerBatch),
     optim_steps_per_batch : 0 .. MaxOptimSteps,
     train_agent_frames : {0, FramesPerBatch + 1},
     exploration : BOOLEAN,
     buffer_size : 1 .. 2,
     num_batches : 1 .. MaxBatches]

TrainInit ==
    /\ pc = "L131"
    /\ \E c \in Configs :
         tr = [cfg |-> c,
               yielded |-> 0,
               tensordict |-> 0,
               collected_frames |-> 0,
               replay_buffer |-> << >>,
               j |-> 0,
               sampled_tensordict |-> 0,
               params |-> [g \in Groups |-> 0],
               grads |-> [g \in Groups |-> 0],
               explored |-> 0,
               synced |-> 0,
               events |-> << >>,
               error |-> ""]

Range(s) == {s[i] : i \in 1 .. Len(s)}

\* replay_buffer.extend(batch): append, evicting the oldest beyond the capacity
extend(buffer, batch, capacity) ==
    LET all == Append(buffer, batch)
    IN  IF Len(all) <= capacity THEN all
        ELSE SubSeq(all, Len(all) - capacity + 1, Len(all))

\* optimizer.step(): updates every parameter of the optimizer's groups
step(params, opt) ==
    [g \in Groups |-> IF g \in opt THEN params[g] + 1 ELSE params[g]]

\* optimizer.zero_grad(): clears .grad of the optimizer's parameters
zero_grad(grads, opt) ==
    [g \in Groups |-> IF g \in opt THEN 0 ELSE grads[g]]

\* loss.backward(): accumulates into .grad of the parameters the loss reaches
backward(grads, reached) ==
    [g \in Groups |-> IF g \in reached THEN grads[g] + 1 ELSE grads[g]]

\* lines 131-151 without line 138: the batch is never stored
CollectBatch_NoExtend ==
    /\ pc = "L131"
    /\ tr.yielded < tr.cfg.num_batches
    /\ \E current_frames \in 1 .. FramesPerBatch :
         LET frames == tr.collected_frames + current_frames
             batch == tr.yielded + 1
         IN  /\ tr' = [tr EXCEPT !.yielded = batch,
                                 !.tensordict = batch,
                                 !.collected_frames = frames,
                                 !.j = 0,
                                 !.events = << >>]
             /\ pc' = IF frames < tr.cfg.init_frames THEN "L131" ELSE "L153"
    /\ TrainOnly

\* lines 131-151: take the next batch from the collector, count its valid
\* frames, store it in the replay buffer, log the rollout statistics and,
\* while fewer than the initial frames are collected, go on collecting
CollectBatch ==
    /\ pc = "L131"
    /\ tr.yielded < tr.cfg.num_batches
    /\ \E current_frames \in 1 .. FramesPerBatch :
         LET frames == tr.collected_frames + current_frames
             batch == tr.yielded + 1
         IN  /\ tr' = [tr EXCEPT !.yielded = batch,
                                 !.tensordict = batch,
                                 !.collected_frames = frames,
                                 !.replay_buffer =
                                     extend(@, batch, tr.cfg.buffer_size),
                                 !.j = 0,
                                 !.events = << >>]
             /\ pc' = IF frames < tr.cfg.init_frames THEN "L131" ELSE "L153"
    /\ TrainOnly

\* line 131: the collector is exhausted, the for loop and main() end
CollectorExhausted ==
    /\ pc = "L131"
    /\ tr.yielded = tr.cfg.num_batches
    /\ pc' = "done"
    /\ UNCHANGED tr
    /\ TrainOnly

\* line 155: replay_buffer.sample(batch_size), uniform over what is stored;
\* sampling an empty buffer raises
SampleBatch ==
    /\ pc = "L155"
    /\ IF tr.replay_buffer = << >>
       THEN /\ pc' = "raised"
            /\ tr' = [tr EXCEPT !.events = <<"sample">>,
                                !.error = "RuntimeError"]
       ELSE /\ pc' = "L158"
            /\ \E b \in Range(tr.replay_buffer) :
                 tr' = [tr EXCEPT !.sampled_tensordict = b,
                                  !.events = <<"sample">>]
    /\ TrainOnly

\* what one backward pass of each loss accumulates gradients into
WorldModelLossReaches == {"module", "context", "mask_logits"}
ReinforceReaches == {"mask_logits"}
ActorLossReaches == {"actor"}
ValueLossReaches == {"value"}

\* lines 158 and 184: which of the two world-model update paths a step takes
WorldModelPath(use_backprop) ==
    IF use_backprop THEN "L159" ELSE "L185"

\* the statement that follows each statement of the loop body that is not a
\* branch; the `else:` of line 184 takes the end of the backpropagation
\* path (line 183) past the reinforce path (lines 185-192) to line 194
LineAfter ==
    [L159 |-> "L169", L169 |-> "L171", L171 |-> "L172", L172 |-> "L174",
     L174 |-> "L183", L183 |-> "L194",
     L185 |-> "L187", L187 |-> "L188", L188 |-> "L189", L189 |-> "L192",
     L192 |-> "L194",
     L196 |-> "L197", L197 |-> "L199", L199 |-> "L200", L200 |-> "L205",
     L205 |-> "L208", L208 |-> "L209", L209 |-> "L211", L211 |-> "L212",
     L212 |-> "L219", L219 |-> "L153", L221 |-> "L223", L223 |-> "L131"]

\* the reinforce path placed after context_opt.step() instead of under else
NextLine_ReinforceAfterBackprop(l) == IF l = "L172" THEN "L185" ELSE LineAfter[l]

NextLine(l) == LineAfter[l]

Ev(s, e) == [s EXCEPT !.events = Append(@, e)]
At(l, s) == [pc |-> l, tr |-> s]
Raise(s, e) == [pc |-> "raised", tr |-> [s EXCEPT !.error = e]]
\* `if do_log:` and the logger calls it guards (they change nothing here)
IfDoLog(s, next) ==
    IF "do_log" \in BoundNames THEN At(next, s) ELSE Raise(s, "NameError")

\* One statement of the loop body, lines 153-223: the state and the line
\* after the statement at line l executed in state s.
Exec(l, s) ==
    CASE l = "L153" ->  \* for j in range(cfg.optim_steps_per_batch)
           IF s.j < s.cfg.optim_steps_per_batch THEN At("L155", s)
           ELSE At("L221", s)
      [] l = "L158" ->  \* if True: ... else: ...
           At(WorldModelPath(UseBackpropPath), s)
      [] l = "L159" ->  \* world_model_loss(sampled_tensordict), lines 159-167
           At(NextLine("L159"), Ev(s, "wm_loss"))
      [] l = "L169" ->  \* loss_world_model.backward(); clip_grad_norm_
           At(NextLine("L169"), Ev([s EXCEPT !.grads =
                              backward(@, WorldModelLossReaches)],
                         "wm_backward"))
      [] l = "L171" ->  \* world_model_opt.step()
           At(NextLine("L171"), Ev([s EXCEPT !.params = step(@, world_model_opt)],
                         "world_model_opt.step"))
      [] l = "L172" ->  \* context_opt.step()
           At(NextLine("L172"), Ev([s EXCEPT !.params = step(@, context_opt)],
                         "context_opt.step"))
      [] l = "L174" ->  \* if do_log: lines 174-182
           IfDoLog(s, NextLine("L174"))
      [] l = "L183" ->  \* world_model_opt.zero_grad()
           At(NextLine("L183"), Ev([s EXCEPT !.grads = zero_grad(@, world_model_opt)],
                         "world_model_opt.zero_grad"))
      [] l = "L185" ->  \* grad = world_model_loss.reinforce(sampled_tensordict)
           At(NextLine("L185"), Ev(s, "reinforce"))
      [] l = "L187" ->  \* logits.backward(grad)
           At(NextLine("L187"), Ev([s EXCEPT !.grads = backward(@, ReinforceReaches)],
                         "mask_backward"))
      [] l = "L188" ->  \* mask_logits_opt.step()
           At(NextLine("L188"), Ev([s EXCEPT !.params = step(@, mask_logits_opt)],
                         "mask_logits_opt.step"))
      [] l = "L189" ->  \* if do_log: lines 189-191
           IfDoLog(s, NextLine("L189"))
      [] l = "L192" ->  \* mask_logits_opt.zero_grad()
           At(NextLine("L192"), Ev([s EXCEPT !.grads = zero_grad(@, mask_logits_opt)],
                         "mask_logits_opt.zero_grad"))
      [] l = "L194" ->  \* if collected_frames >= cfg.train_agent_frames
           IF s.collected_frames >= s.cfg.train_agent_frames
           THEN At("L196", s)
           ELSE At("L153", [s EXCEPT !.j = @ + 1])
      [] l = "L196" ->  \* actor_loss(sampled_tensordict)
           At(NextLine("L196"), Ev(s, "actor_loss"))
      [] l = "L197" ->  \* loss_actor.backward(); clip_grad_norm_
           At(NextLine("L197"), Ev([s EXCEPT !.grads = backward(@, ActorLossReaches)],
                         "actor_backward"))
      [] l = "L199" ->  \* actor_opt.step()
           At(NextLine("L199"), Ev([s EXCEPT !.params = step(@, actor_opt)],
                         "actor_opt.step"))
      [] l = "L200" ->  \* if do_log: lines 200-204
           IfDoLog(s, NextLine("L200"))
      [] l = "L205" ->  \* actor_opt.zero_grad()
           At(NextLine("L205"), Ev([s EXCEPT !.grads = zero_grad(@, actor_opt)],
                         "actor_opt.zero_grad"))
      [] l = "L208" ->  \* value_loss(sampled_tensordict)
           At(NextLine("L208"), Ev(s, "value_loss"))
      [] l = "L209" ->  \* loss_value.backward(); clip_grad_norm_
           At(NextLine("L209"), Ev([s EXCEPT !.grads = backward(@, ValueLossReaches)],
                         "value_backward"))
      [] l = "L211" ->  \* value_opt.step()
           At(NextLine("L211"), Ev([s EXCEPT !.params = step(@, value_opt)],
                         "value_opt.step"))
      [] l = "L212" ->  \* if do_log: lines 212-218
           IfDoLog(s, NextLine("L212"))
      [] l = "L219" ->  \* value_opt.zero_grad(); the next j
           At(NextLine("L219"), Ev([s EXCEPT !.grads = zero_grad(@, value_opt),
                                   !.j = @ + 1],
                         "value_opt.zero_grad"))
      [] l = "L221" ->  \* if cfg.exploration != "": exploration_policy.step
           At(NextLine("L221"), IF s.cfg.exploration
                      THEN [s EXCEPT !.explored = @ + 1] ELSE s)
      [] l = "L223" ->  \* collector.update_policy_weights_()
           At(NextLine("L223"), [s EXCEPT !.synced = @ + 1])

BodyLines == {"L153", "L158", "L159", "L169", "L171", "L172", "L174", "L183",
              "L185", "L187", "L188", "L189", "L192", "L194", "L196", "L197",
              "L199", "L200", "L205", "L208", "L209", "L211", "L212", "L219",
              "L221", "L223"}

\* main() executes the statement it stands at
ExecStatement ==
    /\ pc \in BodyLines
    /\ LET r == Exec(pc, tr) IN pc' = r.pc /\ tr' = r.tr
    /\ TrainOnly


(***************************************************************************)
(* Values: a tensor is a shape and the elements in row-major order; None   *)
(* is Python's None; a call that raises returns the exception.  An         *)
(* optional integer argument is << >> when absent (None) and <<n>> when n. *)
(***************************************************************************)
None == [kind |-> "None"]
Raised(name) == [kind |-> "error", name |-> name]
Tensor(shape, data) == [kind |-> "tensor", shape |-> shape, data |-> data]
IsTensor(t) == t.kind = "tensor"
IsError(t) == t.kind = "error"

RECURSIVE Prod(_)
Prod(shape) == IF shape = << >> THEN 1 ELSE Head(shape) * Prod(Tail(shape))

\* shape[:-1]
Leading(shape) == SubSeq(shape, 1, Len(shape) - 1)
\* shape[-1]
LastDim(shape) == shape[Len(shape)]

\* row r (from 0) of a tensor seen as a matrix with `width` columns
Row(data, r, width) == SubSeq(data, r * width + 1, (r + 1) * width)

RECURSIVE Flatten(_)
Flatten(rows) == IF rows = << >> THEN << >> ELSE Head(rows) \o Flatten(Tail(rows))

(***************************************************************************)
(* Bounds of the ContextModel model.                                       *)
(***************************************************************************)
\* task_num ranges over 0..MaxTasks
MaxTasks == 2
\* the leading (batch) dimension of idx and of an observation: 1..MaxBatch
MaxBatch == 2

\* max_context_dim: the default 0 and a positive width
ContextDims == {0, 2}
\* init_scale: the default 0 and a positive scale
InitScales == {0, 2}
\* the values torch.randn draws, cut down to one negative and one positive
Randn == {-1, 1}
\* the least element of an observation
ObsValues == {0, 7}
\* the values a gradient update leaves in the context table
UpdatedValues == {-2, 2}

\* torch.randn(rows, cols) * scale: every tensor randn can draw, scaled
RandnScaled(rows, cols, scale) ==
    {Tensor(<<rows, cols>>, [i \in 1 .. (rows * cols) |-> d[i] * scale]) :
        d \in [1 .. (rows * cols) -> Randn]}

\* ContextModel.__init__ (lines 9-23): the objects it can construct.  The
\* field log is history: which of reset and the optimizer's step the object
\* has been through.
ContextInit ==
    /\ \E meta \in BOOLEAN, dim \in ContextDims, n \in 0 .. MaxTasks,
          scale \in InitScales :
         \E table \in RandnScaled(n, dim, scale) :
            cm = [meta |-> meta, max_context_dim |-> dim, task_num |-> n,
                  init_scale |-> scale, context_hat |-> table,
                  log |-> {}]
    /\ call = [op |-> "__init__"]

\* `task_num or self.task_num or 1`: a default of one task
Or_DefaultOne(a, b) ==
    IF a = << >> \/ a = <<0>> THEN (IF b = 0 THEN 1 ELSE b) ELSE a[1]

\* Python's `a or b` on an optional integer: b when a is None or 0
Or(a, b) == IF a = << >> \/ a = <<0>> THEN b ELSE a[1]

\* ContextModel.reset (lines 25-30) with the table randn draws: the object after
reset(self, task_num, table) ==
    [self EXCEPT !.task_num = Or(task_num, self.task_num),
                 !.context_hat = table]

\* the task_num reset() builds the table for (line 27)
ResetTaskNum(self, task_num) == Or(task_num, self.task_num)

Reset ==
    /\ \E task_num \in {<< >>} \cup {<<n>> : n \in 0 .. MaxTasks} :
         \E table \in RandnScaled(ResetTaskNum(cm, task_num),
                                  cm.max_context_dim, cm.init_scale) :
            /\ cm' = [reset(cm, task_num, table) EXCEPT
                          !.log = @ \cup {"reset"}]
            /\ call' = [op |-> "reset", task_num |-> task_num,
                        self_task_num |-> cm.task_num, ret |-> None]
    /\ ContextOnly

\* the idx arguments besides None: integer tensors of the shapes [B, 1],
\* [1, 2, 1] and [1] (last dimension 1) holding task indices; one of them
\* with an index past the last task; and, holding zeros, tensors of the
\* shapes [2], [1, 2] (last dimension 2) and [] (0-dimensional)
IdxShapes == {<<b, 1>> : b \in 1 .. MaxBatch} \cup {<<1, 2, 1>>, <<1>>}
MalformedShapes == {<<2>>, <<1, 2>>, << >>}

IdxTensors(task_num) ==
    UNION {{Tensor(sh, d) : d \in [1 .. Prod(sh) -> 0 .. (task_num - 1)]} :
             sh \in IdxShapes}
      \cup {Tensor(<<1, 1>>, <<task_num>>)}
      \cup {Tensor(sh, [i \in 1 .. Prod(sh) |-> 0]) : sh \in MalformedShapes}

\* self.context_hat[idx[0, 0]]: the row of the first index for every index
Gather_FirstIndex(table, idx) ==
    LET width == table.shape[2]
        n == Prod(Leading(idx.shape))
    IN  IF \E i \in 1 .. n : idx.data[i] >= table.shape[1] \/ idx.data[i] < 0
        THEN Raised("IndexError")
        ELSE Tensor(Leading(idx.shape) \o <<width>>,
                    Flatten([i \in 1 .. n |-> Row(table.data, idx.data[1], width)]))

\* self.context_hat[idx[..., 0]] (line 47): one row of the table per index
Gather(table, idx) ==
    LET width == table.shape[2]
        n == Prod(Leading(idx.shape))
    IN  IF \E i \in 1 .. n : idx.data[i] >= table.shape[1] \/ idx.data[i] < 0
        THEN Raised("IndexError")
        ELSE Tensor(Leading(idx.shape) \o <<width>>,
                    Flatten([i \in 1 .. n |-> Row(table.data, idx.data[i], width)]))

\* forward with its two assert statements compiled away
forward_NoAssert(self, idx) ==
    IF idx = None THEN Tensor(<<0>>, << >>)
    ELSE IF idx.shape = << >> THEN Raised("IndexError")
    ELSE Gather(self.context_hat, [idx EXCEPT !.shape = Leading(@) \o <<1>>])

\* forward returning torch.empty(self.max_context_dim) for a missing idx
forward_EmptyOfContextDim(self, idx) ==
    IF idx = None
    THEN IF self.meta THEN Raised("AssertionError")
         ELSE Tensor(<<self.max_context_dim>>,
                     [i \in 1 .. self.max_context_dim |-> 0])
    ELSE IF idx.shape = << >> THEN Raised("IndexError")
    ELSE IF LastDim(idx.shape) # 1 THEN Raised("AssertionError")
    ELSE Gather(self.context_hat, idx)

\* ContextModel.forward (lines 41-47): what the call returns or raises
forward(self, idx) ==
    IF idx = None
    THEN IF self.meta THEN Raised("AssertionError") ELSE Tensor(<<0>>, << >>)
    ELSE IF idx.shape = << >> THEN Raised("IndexError")
    ELSE IF LastDim(idx.shape) # 1 THEN Raised("AssertionError")
    ELSE Gather(self.context_hat, idx)

Forward ==
    /\ \E idx \in {None} \cup IdxTensors(cm.task_num) :
         call' = [op |-> "forward", idx |-> idx, self |-> cm,
                  ret |-> forward(cm, idx)]
    /\ UNCHANGED cm
    /\ ContextOnly

\* torch.cat([x, y], dim=-1) (plain_wm.py line 100, context_model.py line
\* 80): a 1-dimensional empty tensor is skipped; otherwise the tensors must
\* agree in every dimension but the last
Cat(x, y) ==
    IF y.shape = <<0>> THEN x
    ELSE IF x.shape = <<0>> THEN y
    ELSE IF Len(x.shape) # Len(y.shape) \/ Leading(x.shape) # Leading(y.shape)
    THEN Raised("RuntimeError")
    ELSE LET n == Prod(Leading(x.shape))
             wx == LastDim(x.shape)
             wy == LastDim(y.shape)
         IN  Tensor(Leading(x.shape) \o <<wx + wy>>,
                    Flatten([i \in 1 .. n |->
                        Row(x.data, i - 1, wx) \o Row(y.data, i - 1, wy)]))

\* the observation batches: shape [B, x_size], x_size 1 or 2, the elements
\* all different
Observations ==
    {Tensor(<<b, w>>, [i \in 1 .. (b * w) |-> v + i]) :
        b \in 1 .. MaxBatch, w \in 1 .. 2, v \in ObsValues}

\* x = torch.cat([x, context_model(idx)], dim=-1): the context returned by
\* the last forward call is appended to an observation batch
CatContext ==
    /\ call.op = "forward"
    /\ IsTensor(call.ret)
    /\ \E x \in Observations :
         call' = [op |-> "cat", idx |-> call.idx, self |-> call.self,
                  x |-> x, context |-> call.ret, ret |-> Cat(x, call.ret)]
    /\ UNCHANGED cm
    /\ ContextOnly

\* context_opt.step() (train.py line 172): a gradient update of the row of
\* one task in the context table
ParamUpdate ==
    /\ \E t \in 0 .. (cm.task_num - 1) :
         \E row \in [1 .. cm.max_context_dim -> UpdatedValues] :
            LET d == cm.max_context_dim
            IN  /\ row # Row(cm.context_hat.data, t, d)
                /\ cm' = [cm EXCEPT !.context_hat.data =
                              [i \in 1 .. Len(@) |->
                                  IF (i - 1) \div d = t
                                  THEN row[i - t * d] ELSE @[i]],
                                    !.log = @ \cup {"step"}]
    /\ call' = [op |-> "step"]
    /\ ContextOnly

(***************************************************************************)
(* PlainMDPWorldModel (plain_wm.py).  Reals are fixed-point numbers in     *)
(* tenths: 5 is 0.5, -100 is -10.0, 10000000 is 1e6.                       *)
(***************************************************************************)
\* round(10 * ln(1 + exp(-k/10))) for k = 0 .. 29; 0 from k = 30 on
SoftplusExcess ==
    <<7, 6, 6, 6, 5, 5, 4, 4, 4, 3, 3, 3, 3, 2, 2, 2, 2, 2, 2, 1,
      1, 1, 1, 1, 1, 1, 1, 1, 1, 1>>

Abs(z) == IF z < 0 THEN -z ELSE z
Max(a, b) == IF a >= b THEN a ELSE b
Min(a, b) == IF a <= b THEN a ELSE b

\* F.softplus(z) = ln(1 + exp(z)) = max(z, 0) + ln(1 + exp(-|z|)), rounded
\* to the nearest tenth
softplus(z) ==
    Max(z, 0) + (IF Abs(z) < Len(SoftplusExcess)
                 THEN SoftplusExcess[Abs(z) + 1] ELSE 0)

\* get_log_var without line 65: only the upper clamp
get_log_var_UpperOnly(log_var_bounds, log_var) ==
    log_var_bounds[2] - softplus(log_var_bounds[2] - log_var)

\* PlainMDPWorldModel.get_log_var (lines 62-66) on one element
get_log_var(log_var_bounds, log_var) ==
    LET min_log_var == log_var_bounds[1]
        max_log_var == log_var_bounds[2]
        upper == max_log_var - softplus(max_log_var - log_var)
    IN  min_log_var + softplus(upper - min_log_var)

\* the configurations: log_var_bounds (the default (-10.0, 0.5) first),
\* learn_obs_var, residual, obs_dim
LogVarBounds == {<<-100, 5>>, <<0, 0>>, <<0, 10>>, <<10, 20>>, <<-20, -10>>}
ObsDims == {1, 2}
\* what the network can output for a log-variance, the extremes -1e6 and 1e6
\* among them, and for a mean; the elements of an observation
RawLogVars == {-10000000, -3, 4, 10000000}
RawMeans == {0, 3}
WMObsValues == {0, 7}

\* PlainMDPWorldModel.get_outputs (lines 68-95) on one row of the flattened
\* batch: mean and log_var have obs_dim + 2 columns
get_outputs(self, mean, log_var, observation) ==
    LET w == Len(mean)
        next_obs_mean == SubSeq(mean, 1, w - 2)
        reward_mean == SubSeq(mean, w - 1, w - 1)
        terminated == SubSeq(mean, w, w)
        clamp(row) == [i \in 1 .. Len(row) |->
                           get_log_var(self.log_var_bounds, row[i])]
        zeros_like(row) == [i \in 1 .. Len(row) |-> 0]
        next_obs_log_var == IF self.learn_obs_var
                            THEN clamp(SubSeq(log_var, 1, w - 2))
                            ELSE zeros_like(SubSeq(log_var, 1, w - 2))
        reward_log_var == IF self.learn_obs_var
                          THEN clamp(SubSeq(log_var, w - 1, w - 1))
                          ELSE zeros_like(SubSeq(log_var, w - 1, w - 1))
    IN  [next_obs_mean |-> IF self.residual
                           THEN [i \in 1 .. (w - 2) |->
                                    observation[i] + next_obs_mean[i]]
                           ELSE next_obs_mean,
         next_obs_log_var |-> next_obs_log_var,
         reward_mean |-> reward_mean,
         reward_log_var |-> reward_log_var,
         terminated |-> terminated]

\* PlainMDPWorldModel.__init__ (lines 10-45)
WMInit ==
    \E b \in LogVarBounds, lov \in BOOLEAN, res \in BOOLEAN, d \in ObsDims :
       wm = [self |-> [log_var_bounds |-> b, learn_obs_var |-> lov,
                       residual |-> res, obs_dim |-> d],
             op |-> "__init__"]

\* PlainMDPWorldModel.forward (lines 97-106): the network's output is split
\* into mean and log_var and handed to get_outputs.  A forward pass leaves
\* the object as it is, so one pass per object stands for every pass.
WMForward ==
    /\ wm.op = "__init__"
    /\ \E mean \in [1 .. (wm.self.obs_dim + 2) -> RawMeans],
          log_var \in [1 .. (wm.self.obs_dim + 2) -> RawLogVars],
          observation \in [1 .. wm.self.obs_dim -> WMObsValues] :
         wm' = [self |-> wm.self, op |-> "forward",
                mean |-> mean, log_var |-> log_var,
                observation |-> observation,
                ret |-> get_outputs(wm.self, mean, log_var, observation)]
    /\ WMOnly

(***************************************************************************)
(* mean_corr_coef (metrics.py).  A matrix is the sequence of its columns,  *)
(* a column the sequence of its NumSamples samples.  A correlation is a    *)
(* fixed-point number in units of 1/CorrScale, rounded towards zero.       *)
(***************************************************************************)
\* the rows (samples) of x and y
NumSamples == 3
\* 1.0 as a fixed-point correlation
CorrScale == 100
\* the values of a sample
SampleValues == {0, 1}
\* the numbers of columns of x
ColumnCounts == {2, 3}

RECURSIVE Sum(_, _)
\* f[1] + ... + f[n]
Sum(f, n) == IF n = 0 THEN 0 ELSE f[n] + Sum(f, n - 1)

\* the integer square root
ISqrt(v) == CHOOSE r \in 0 .. CorrScale : r * r <= v /\ v < (r + 1) * (r + 1)

NaN == -1

\* n^2 times the covariance of two columns of n samples
CovN(a, b) ==
    LET n == Len(a)
    IN  n * Sum([i \in 1 .. n |-> a[i] * b[i]], n) - Sum(a, n) * Sum(b, n)

\* the block [d:, :d] instead of [:d, d:]: entry [i][j] is the correlation of
\* column i of y and column j of x
AbsCorr_LowerLeftBlock(x, y) ==
    [i \in 1 .. Len(y) |-> [j \in 1 .. Len(x) |->
        LET vx == CovN(x[j], x[j])
            vy == CovN(y[i], y[i])
            c == CovN(y[i], x[j])
        IN  IF vx * vy = 0 THEN NaN
            ELSE ISqrt((CorrScale * CorrScale * c * c) \div (vx * vy))] \o << >>]
      \o << >>

\* |np.corrcoef(x, y, rowvar=False)[:d, d:]| (lines 26 and 31): entry [i][j]
\* is the absolute Pearson correlation of column i of x and column j of y,
\* NaN when one of the two is constant
AbsCorr(x, y) ==
    [i \in 1 .. Len(x) |-> [j \in 1 .. Len(y) |->
        LET vx == CovN(x[i], x[i])
            vy == CovN(y[j], y[j])
            c == CovN(x[i], y[j])
        IN  IF vx * vy = 0 THEN NaN
            ELSE ISqrt((CorrScale * CorrScale * c * c) \div (vx * vy))] \o << >>]
      \o << >>

\* the sequences of k distinct numbers of 1..n
Injections(k, n) ==
    {f \in [1 .. k -> 1 .. n] : \A i, j \in 1 .. k : i # j => f[i] # f[j]}

\* the (row_ind, col_ind) pairs linear_sum_assignment can return for a d1 x d2
\* matrix: min(d1, d2) pairs, the rows increasing
Assignments(d1, d2) ==
    LET k == Min(d1, d2)
    IN  {a \in [rows : Injections(k, d1), cols : Injections(k, d2)] :
            \A i \in 1 .. (k - 1) : a.rows[i] < a.rows[i + 1]}

\* cc[permutation].sum()
Matched(cc, a) == Sum([i \in 1 .. Len(a.rows) |-> cc[a.rows[i]][a.cols[i]]],
                      Len(a.rows))

\* a before b in the lexicographic order of col_ind
LexLess(a, b) ==
    \E i \in 1 .. Len(a) :
       /\ a[i] < b[i]
       /\ \A k \in 1 .. (i - 1) : a[k] = b[k]

\* linear_sum_assignment(-1 * cc) (line 32): an assignment of the greatest
\* matched sum.  The solver is deterministic; of several best assignments
\* it returns here the one with the least col_ind, as scipy does for a
\* matrix of equal entries.
linear_sum_assignment(cc) ==
    LET all == Assignments(Len(cc), Len(cc[1]))
        best == {a \in all : \A b \in all : Matched(cc, b) <= Matched(cc, a)}
    IN  CHOOSE a \in best :
           \A b \in best : b = a \/ LexLess(a.cols, b.cols) \/
                           (a.cols = b.cols /\ LexLess(a.rows, b.rows))

\* mean_corr_coef(x, y, method='pearson', return_permutation=True), lines
\* 24-36: the score in units of 1/CorrScale and the assignment; the solver
\* raises ValueError for a matrix with a NaN entry
mean_corr_coef(x, y) ==
    LET cc == AbsCorr(x, y)
    IN  IF \E i \in 1 .. Len(x), j \in 1 .. Len(y) : cc[i][j] = NaN
        THEN Raised("ValueError")
        ELSE LET permutation == linear_sum_assignment(cc)
             IN  [kind |-> "result",
                  score |-> Matched(cc, permutation) \div Max(Len(x), Len(y)),
                  permutation |-> permutation]

\* y[:, P]: column j of the result is column P[j] of y
PermuteColumns(y, P) == [j \in 1 .. Len(y) |-> y[P[j]]]

Columns == [1 .. NumSamples -> SampleValues]

\* the inputs: a matrix x, and y = x with its columns permuted by P
MCCInit ==
    \E d \in ColumnCounts :
       \E x \in [1 .. d -> Columns], P \in Injections(d, d) :
          mcc = [x |-> x, P |-> P, y |-> PermuteColumns(x, P), ret |-> None]

\* the call mean_corr_coef(x, y, return_permutation=True)
MCCCall ==
    /\ mcc.ret = None
    /\ mcc' = [mcc EXCEPT !.ret = mean_corr_coef(mcc.x, mcc.y)]
    /\ MCCOnly

(***************************************************************************)
(* The specifications, one per component.                                  *)
(***************************************************************************)
\* the training loop
Init == TrainInit /\ cm = Idle /\ call = Idle /\ wm = Idle /\ mcc = Idle
Next ==
    \/ CollectBatch
    \/ CollectorExhausted
    \/ SampleBatch
    \/ ExecStatement
Spec == Init /\ [][Next]_vars

ContextIdle == pc = Idle /\ tr = Idle /\ wm = Idle /\ mcc = Idle

\* a ContextModel under reset, forward and gradient updates
SpecContextInit == ContextInit /\ ContextIdle
SpecContextNext ==
    \/ Reset
    \/ Forward
    \/ ParamUpdate
SpecContext == SpecContextInit /\ [][SpecContextNext]_vars

\* a freshly built ContextModel whose embedding is appended to an observation
SpecConcatInit == ContextInit /\ ContextIdle
SpecConcatNext ==
    \/ Forward
    \/ CatContext
SpecConcat == SpecConcatInit /\ [][SpecConcatNext]_vars

\* a forward pass of PlainMDPWorldModel
SpecWMInit ==
    WMInit /\ pc = Idle /\ tr = Idle /\ cm = Idle /\ call = Idle /\ mcc = Idle
SpecWMNext == WMForward
SpecWM == SpecWMInit /\ [][SpecWMNext]_vars

\* a call of mean_corr_coef
SpecMCCInit ==
    MCCInit /\ pc = Idle /\ tr = Idle /\ cm = Idle /\ call = Idle /\ wm = Idle
SpecMCCNext == MCCCall
SpecMCC == SpecMCCInit /\ [][SpecMCCNext]_vars

(***************************************************************************)
(* The training loop: C1, C2, C3, C10.                                     *)
(***************************************************************************)
Executed == Range(tr.events)
BackpropPath == {"wm_backward", "world_model_opt.step", "context_opt.step"}
ReinforcePath == {"reinforce", "mask_backward", "mask_logits_opt.step"}

\* C1: no optimization step executes both the reinforce path (reinforce,
\* mask_logits_opt.step) and the backpropagation path (backward,
\* world_model_opt.step, context_opt.step).
C1_PathsExclusive ==
    ~(Executed \cap BackpropPath # {} /\ Executed \cap ReinforcePath # {})

\* a step that ran the whole backpropagation path and none of the other
C1_Witness ==
    /\ BackpropPath \subseteq Executed
    /\ Executed \cap ReinforcePath = {}
    /\ tr.params["module"] = 1

C3_Sequenced ==
    /\ Executed # {} =>
         /\ tr.tensordict >= 1
         /\ tr.tensordict \in Range(tr.replay_buffer)
         /\ tr.error # "RuntimeError"
    /\ tr.sampled_tensordict # 0 => tr.sampled_tensordict \in 1 .. tr.yielded
    /\ (pc = "L131" /\ tr.yielded > 0
          /\ tr.collected_frames >= tr.cfg.init_frames) =>
         tr.j = tr.cfg.optim_steps_per_batch

\* an optimizer has stepped on a batch sampled after two extends
C3_Witness ==
    /\ "world_model_opt.step" \in Executed
    /\ tr.yielded >= 2
    /\ tr.sampled_tensordict \in Range(tr.replay_buffer)

\* an optimization step that began is over: main() raised or went on
StepOver == "sample" \in Executed /\ pc \in {"raised", "L153", "L131", "done"}

Position(e) == CHOOSE i \in 1 .. Len(tr.events) : tr.events[i] = e

\* C10: in an optimization step the world-model update completes first, then
\* the actor update, then the value update, the latter two exactly when
\* collected_frames >= train_agent_frames, all on the batch sampled at the
\* start of the step, and the dynamics parameters do not change between the
\* actor loss and the value loss.  The code does not do this: the step ends
\* with a NameError at line 174 before the actor update.
C10_DataFlowOrder ==
    /\ {"actor_opt.step", "value_opt.step"} \cap Executed # {} =>
         tr.collected_frames >= tr.cfg.train_agent_frames
    /\ "actor_opt.step" \in Executed =>
         /\ "context_opt.step" \in Executed
         /\ Position("context_opt.step") < Position("actor_opt.step")
    /\ "value_opt.step" \in Executed =>
         /\ "actor_opt.step" \in Executed
         /\ Position("actor_opt.step") < Position("value_opt.step")
    /\ (StepOver /\ tr.collected_frames >= tr.cfg.train_agent_frames) =>
         /\ {"world_model_opt.step", "context_opt.step"} \subseteq Executed
         /\ {"actor_opt.step", "value_opt.step"} \subseteq Executed

\* the parameter groups whose optimizers step on the backpropagation path
SteppedGroups == world_model_opt \cup context_opt

\* C11: no gradient leaks from one optimization step into the next: when
\* loss_world_model.backward() is about to run (line 169) the accumulated
\* gradients of the groups stepped by world_model_opt and context_opt are
\* zero, and every optimization step that ran its backward pass has reached
\* world_model_opt.zero_grad() and left those gradients cleared when it is
\* over.  The code does not do this: the step ends with a NameError at line
\* 174, before line 183, with the gradients of both groups still in place
\* (and no statement of main() clears the gradients of context_opt).
C11_NoGradientLeak ==
    /\ pc = "L169" => \A g \in SteppedGroups : tr.grads[g] = 0
    /\ (StepOver /\ "wm_backward" \in Executed) =>
         /\ "world_model_opt.zero_grad" \in Executed
         /\ \A g \in SteppedGroups : tr.grads[g] = 0

(***************************************************************************)
(* ContextModel: C4, C5, C6, C7.                                           *)
(***************************************************************************)
\* C4: forward fails with an error and leaves the context table as it was
\* when idx is None in meta mode and when the last dimension of idx is not 1.
C4_ForwardFailsLoudly ==
    call.op = "forward" =>
      ((\/ (call.idx = None /\ call.self.meta)
        \/ (call.idx # None /\ call.idx.shape # << >>
              /\ LastDim(call.idx.shape) # 1))
       => /\ call.ret = Raised("AssertionError")
          /\ cm.context_hat = call.self.context_hat)

\* forward(None) has failed on a meta model that holds a context table
C4_Witness ==
    /\ call.op = "forward"
    /\ call.idx = None
    /\ cm.meta
    /\ cm.task_num > 0
    /\ cm.max_context_dim > 0
    /\ call.ret = Raised("AssertionError")

ResetWithoutTaskNum ==
    call.op = "reset" /\ call.task_num = << >> /\ call.self_task_num = 0

\* C5 as claimed: reset() without a task_num on a model built without one fails.
C5_ResetFails == ResetWithoutTaskNum => IsError(call.ret)

\* C5, amended: reset() without a task_num on a model whose task_num is 0
\* does not fail; it keeps task_num at 0 and installs an empty context
\* table of shape [0, max_context_dim].
C5_ResetBuildsEmptyTable ==
    ResetWithoutTaskNum =>
      /\ call.ret = None
      /\ cm.task_num = 0
      /\ cm.context_hat = Tensor(<<0, cm.max_context_dim>>, << >>)

C5_Witness == ResetWithoutTaskNum /\ cm.max_context_dim > 0 /\ call.ret = None

\* C6: without meta mode forward(None) returns a zero-length embedding, and
\* appending it to an observation batch gives the observation back, shape
\* and content.
C6_EmptyContextConcat ==
    (call.op = "cat" /\ call.idx = None /\ ~call.self.meta) =>
      /\ call.context.shape = <<0>>
      /\ call.context.data = << >>
      /\ call.ret = call.x

C6_Witness ==
    /\ call.op = "cat"
    /\ call.idx = None
    /\ ~cm.meta
    /\ cm.max_context_dim > 0
    /\ cm.task_num > 0
    /\ call.x.shape = <<2, 2>>
    /\ call.ret = call.x

ValidIdx ==
    /\ call.op = "forward"
    /\ call.idx # None
    /\ call.idx.shape # << >>
    /\ LastDim(call.idx.shape) = 1
    /\ \A i \in 1 .. Len(call.idx.data) : call.idx.data[i] \in 0 .. (cm.task_num - 1)

\* C7: for valid task indices of shape [*, 1], after any resets and
\* parameter updates, forward returns a tensor of shape [*, max_context_dim]
\* holding for each index the row the context table stores for it, and does
\* not change the table.
C7_ForwardReturnsRows ==
    ValidIdx =>
      /\ IsTensor(call.ret)
      /\ call.ret.shape = Leading(call.idx.shape) \o <<cm.max_context_dim>>
      /\ Len(call.ret.data) = Len(call.idx.data) * cm.max_context_dim
      /\ \A i \in 1 .. Len(call.idx.data), k \in 1 .. cm.max_context_dim :
           call.ret.data[(i - 1) * cm.max_context_dim + k]
             = cm.context_hat.data[call.idx.data[i] * cm.max_context_dim + k]
      /\ cm.context_hat = call.self.context_hat

\* two different rows looked up, last first, after a reset and an update
C7_Witness ==
    /\ ValidIdx
    /\ cm.log = {"reset", "step"}
    /\ call.idx.shape = <<2, 1>>
    /\ call.idx.data = <<1, 0>>
    /\ cm.max_context_dim = 2
    /\ Row(cm.context_hat.data, 0, 2) # Row(cm.context_hat.data, 1, 2)
    /\ call.ret.data = Row(cm.context_hat.data, 1, 2) \o Row(cm.context_hat.data, 0, 2)

(***************************************************************************)
(* PlainMDPWorldModel: C8.                                                 *)
(***************************************************************************)
\* the log-variances a forward pass returned
ReturnedLogVars == Range(wm.ret.next_obs_log_var) \cup Range(wm.ret.reward_log_var)
min_log_var == wm.self.log_var_bounds[1]
max_log_var == wm.self.log_var_bounds[2]

Inverse(P) == [i \in 1 .. Len(P) |-> CHOOSE j \in 1 .. Len(P) : P[j] = i]
Identity(d) == [i \in 1 .. d |-> i]

Constant(col) == \A i \in 1 .. Len(col) : col[i] = col[1]
\* two columns with correlation 1 or -1
PerfectlyCorrelated(a, b) == CovN(a, b) * CovN(a, b) = CovN(a, a) * CovN(b, b)
\* no column of x is constant
NoConstantColumn == \A i \in 1 .. Len(mcc.x) : ~Constant(mcc.x[i])
\* no two columns of x are perfectly correlated
ColumnsDistinguishable ==
    \A i, j \in 1 .. Len(mcc.x) :
       i # j => ~PerfectlyCorrelated(mcc.x[i], mcc.x[j])

\* C9 as claimed, on the matrices whose correlations are all defined: for
\* x == y the Pearson score is 1.0 under every permutation P of the columns
\* of y, and the returned assignment maps each column of x to the position P
\* gave its matching column (the inverse of P).
C9_PermutationInvariant ==
    (mcc.ret # None /\ NoConstantColumn) =>
      /\ mcc.ret.kind = "result"
      /\ mcc.ret.score = CorrScale
      /\ mcc.ret.permutation.rows = Identity(Len(mcc.x))
      /\ mcc.ret.permutation.cols = Inverse(mcc.P)

\* C9, amended: for x == y without a constant column the score is 1.0 under
\* every permutation P of the columns of y, and the assignment is the
\* inverse of P provided no two columns of x are perfectly correlated; with
\* a constant column the call raises ValueError.
C9_PermutationInvariantGeneric ==
    mcc.ret # None =>
      IF NoConstantColumn
      THEN /\ mcc.ret.kind = "result"
           /\ mcc.ret.score = CorrScale
           /\ mcc.ret.permutation.rows = Identity(Len(mcc.x))
           /\ ColumnsDistinguishable =>
                mcc.ret.permutation.cols = Inverse(mcc.P)
      ELSE mcc.ret = Raised("ValueError")

\* three distinguishable columns under a permutation that is not its own
\* inverse
C9_Witness ==
    /\ mcc.ret # None
    /\ Len(mcc.x) = 3
    /\ NoConstantColumn
    /\ ColumnsDistinguishable
    /\ mcc.P = <<2, 3, 1>>
    /\ mcc.ret.score = CorrScale
    /\ mcc.ret.permutation.cols = <<3, 1, 2>>

=============================================================================
